---- MODULE Spec2Model ----
(***************************************************************************)
(* Secure remote-resource fetcher of the Smart-Agriculture service:        *)
(* app/core/ssrf_protection.py.  validate_image_url (the URL validator),   *)
(* download_image_securely (blocking, requests + urllib3 Retry) and        *)
(* download_image_securely_async (non-blocking, httpx); and the Celery     *)
(* task that calls it, analyze_image of app/worker/diagnosis_tasks.py.     *)
(*                                                                         *)
(* Text is modelled as sequences of one-character strings; the fixed       *)
(* (Chinese) literals of the messages are single tokens with an ASCII      *)
(* rendering, formatted values (host names, addresses, numbers, URLs) are  *)
(* spelled out character by character.                                     *)
(***************************************************************************)
EXTENDS Integers, Sequences, FiniteSets, TLC

\* ------------------------------------------------------------------ bounds
MaxAnswer == 2      \* longest DNS answer (addresses, before de-duplication)
ChunkSize == 2      \* bytes per body chunk: chunk_size=8192, scaled down
MaxSize == 3        \* the max_size argument of a download call, scaled down
MaxChunks == 3      \* most chunks the origin sends in one body
MaxRedirects == 1   \* most redirects the origin answers in one download
MaxInstances == 3   \* transports of one mode a process creates
MaxThreads == 3     \* threads of one process that download at the same time

\* ------------------------------------------------------- program constants
DOWNLOAD_TIMEOUT == 30
SESSION_MAX_RETRIES == 3
HTTPS_DEFAULT_PORT == 443
HTTP_DEFAULT_PORT == 80
DNS_TIMEOUT == 5

\* ------------------------------------------------------------------- text
UPPER == <<"A","B","C","D","E","F","G","H","I","J","K","L","M",
           "N","O","P","Q","R","S","T","U","V","W","X","Y","Z">>
LOWER == <<"a","b","c","d","e","f","g","h","i","j","k","l","m",
           "n","o","p","q","r","s","t","u","v","w","x","y","z">>
DIGITS == <<"0","1","2","3","4","5","6","7","8","9">>

Range(s) == {s[i] : i \in 1..Len(s)}

\* str.lower() on one character, then on a text
LowerChar(c) ==
    IF c \in Range(UPPER) THEN LOWER[CHOOSE i \in 1..Len(UPPER) : UPPER[i] = c] ELSE c

Lower(s) == [i \in 1..Len(s) |-> LowerChar(s[i])]

\* str.find(c): the first position of c in s (1-based), 0 when absent
Find(s, c) ==
    IF c \in Range(s)
    THEN CHOOSE i \in 1..Len(s) : s[i] = c /\ \A j \in 1..(i - 1) : s[j] # c
    ELSE 0

\* str.rfind(c): the last position of c in s (1-based), 0 when absent
RFind(s, c) ==
    IF c \in Range(s)
    THEN CHOOSE i \in 1..Len(s) : s[i] = c /\ \A j \in (i + 1)..Len(s) : s[j] # c
    ELSE 0

\* s[i:] and s[:i] of Python, 1-based: the text from position i, the text before i
From(s, i) == SubSeq(s, i, Len(s))
Before(s, i) == SubSeq(s, 1, i - 1)

\* t in s
Contains(s, t) ==
    \E i \in 1..(Len(s) - Len(t) + 1) : SubSeq(s, i, i + Len(t) - 1) = t

\* s.startswith(p)
StartsWith(s, p) == Len(s) >= Len(p) /\ SubSeq(s, 1, Len(p)) = p

IsDigit(c) == c \in Range(DIGITS)
DigitVal(c) == (CHOOSE i \in 1..Len(DIGITS) : DIGITS[i] = c) - 1

\* str.isdigit() (ASCII)
IsDigits(s) == Len(s) > 0 /\ \A i \in 1..Len(s) : IsDigit(s[i])

\* int(s) of a text of digits
RECURSIVE ParseInt(_)
ParseInt(s) ==
    IF Len(s) = 0 THEN 0
    ELSE 10 * ParseInt(Before(s, Len(s))) + DigitVal(s[Len(s)])

\* str(n) of a natural number
RECURSIVE NatToStr(_)
NatToStr(n) ==
    IF n < 10 THEN <<DIGITS[n + 1]>>
    ELSE NatToStr(n \div 10) \o <<DIGITS[(n % 10) + 1]>>

\* s.split(c)
RECURSIVE Split(_, _)
Split(s, c) ==
    IF Find(s, c) = 0 THEN <<s>>
    ELSE <<Before(s, Find(s, c))>> \o Split(From(s, Find(s, c) + 1), c)

\* list(dict.fromkeys(s)): duplicates removed, first occurrences kept in order
RECURSIVE Dedup(_)
Dedup(s) ==
    IF Len(s) = 0 THEN << >>
    ELSE LET r == Dedup(Before(s, Len(s)))
         IN  IF s[Len(s)] \in Range(r) THEN r ELSE Append(r, s[Len(s)])

Min(S) == CHOOSE x \in S : \A y \in S : x <= y

\* ------------------------------------------------------ urllib.parse model
\* The URLs of the model hold no ';', no '%', no control characters and no
\* bracketed (IPv6) host, so urlparse's params and zone handling never apply.
SCHEME_CHARS == Range(UPPER) \cup Range(LOWER) \cup Range(DIGITS) \cup {"+", "-", "."}

\* urlparse(url): scheme (lower-cased), netloc, path, query, fragment; bad is
\* the ValueError("Invalid IPv6 URL") of an unbalanced bracket in the netloc
urlparse(url) ==
    LET i == Find(url, ":")
        hasScheme == i > 1 /\ \A k \in 1..(i - 1) : url[k] \in SCHEME_CHARS
        scheme == IF hasScheme THEN Lower(Before(url, i)) ELSE << >>
        r1 == IF hasScheme THEN From(url, i + 1) ELSE url
        hasNetloc == StartsWith(r1, <<"/", "/">>)
        afterSl == From(r1, 3)
        delims == {k \in 1..Len(afterSl) : afterSl[k] \in {"/", "?", "#"}}
        d == IF delims = {} THEN Len(afterSl) + 1 ELSE Min(delims)
        netloc == IF hasNetloc THEN Before(afterSl, d) ELSE << >>
        r2 == IF hasNetloc THEN From(afterSl, d) ELSE r1
        h == Find(r2, "#")
        fragment == IF h > 0 THEN From(r2, h + 1) ELSE << >>
        r3 == IF h > 0 THEN Before(r2, h) ELSE r2
        q == Find(r3, "?")
        query == IF q > 0 THEN From(r3, q + 1) ELSE << >>
        path == IF q > 0 THEN Before(r3, q) ELSE r3
    IN  [scheme |-> scheme, netloc |-> netloc, path |-> path, query |-> query,
         fragment |-> fragment,
         bad |-> (("[" \in Range(netloc)) # ("]" \in Range(netloc)))]

\* ParseResult._hostinfo: the netloc after its last '@', cut at the first ':'
hostinfo(parsed) ==
    LET info == From(parsed.netloc, RFind(parsed.netloc, "@") + 1)
        c == Find(info, ":")
    IN  [hostname |-> IF c > 0 THEN Before(info, c) ELSE info,
         port |-> IF c > 0 THEN From(info, c + 1) ELSE << >>]

\* ParseResult.hostname: lower-cased; the empty text stands for None
hostname_of(parsed) == Lower(hostinfo(parsed).hostname)

\* ParseResult.port: err is its ValueError (not a number, or out of 0..65535);
\* val = 0 stands for None as well as for port 0 ("parsed.port or ..." joins them)
port_of(parsed) ==
    LET p == hostinfo(parsed).port
    IN  IF Len(p) = 0 THEN [err |-> FALSE, val |-> 0]
        ELSE IF ~IsDigits(p) THEN [err |-> TRUE, val |-> 0]
        ELSE IF ParseInt(p) > 65535 THEN [err |-> TRUE, val |-> 0]
        ELSE [err |-> FALSE, val |-> ParseInt(p)]

\* ParseResult._replace(netloc=netloc).geturl(): urlunsplit
geturl(parsed, netloc) ==
    LET p0 == parsed.path
        p1 == IF Len(netloc) > 0 \/ (Len(parsed.scheme) > 0 /\ ~StartsWith(p0, <<"/", "/">>))
              THEN <<"/", "/">> \o netloc
                   \o (IF Len(p0) > 0 /\ p0[1] # "/" THEN <<"/">> \o p0 ELSE p0)
              ELSE p0
        p2 == IF Len(parsed.scheme) > 0 THEN parsed.scheme \o <<":">> \o p1 ELSE p1
        p3 == IF Len(parsed.query) > 0 THEN p2 \o <<"?">> \o parsed.query ELSE p2
    IN  IF Len(parsed.fragment) > 0 THEN p3 \o <<"#">> \o parsed.fragment ELSE p3

\* --------------------------------------------------------- ipaddress model
\* ipaddress.ip_address(text) for dotted-quad IPv4 text: the four octets, or
\* << >> for the ValueError of a text that is no address
ip_address(t) ==
    LET parts == Split(t, ".")
    IN  IF /\ Len(parts) = 4
           /\ \A i \in 1..4 : /\ IsDigits(parts[i])
                              /\ Len(parts[i]) <= 3
                              /\ (Len(parts[i]) > 1 => parts[i][1] # "0")
                              /\ ParseInt(parts[i]) <= 255
        THEN [i \in 1..4 |-> ParseInt(parts[i])]
        ELSE << >>

\* a in ip_network(n/len): the first len bits agree, octet by octet
InNet(a, n, len) ==
    \A i \in 1..4 :
        LET rest == len - 8 * (i - 1)
            bits == IF rest >= 8 THEN 8 ELSE IF rest <= 0 THEN 0 ELSE rest
        IN  a[i] \div (2 ^ (8 - bits)) = n[i] \div (2 ^ (8 - bits))

is_loopback(a) == InNet(a, <<127, 0, 0, 0>>, 8)
is_link_local(a) == InNet(a, <<169, 254, 0, 0>>, 16)
is_reserved(a) == InNet(a, <<240, 0, 0, 0>>, 4)
is_multicast(a) == InNet(a, <<224, 0, 0, 0>>, 4)

\* IPv4Address.is_private: membership in ipaddress._private_networks
is_private(a) ==
    \/ InNet(a, <<0, 0, 0, 0>>, 8)
    \/ InNet(a, <<10, 0, 0, 0>>, 8)
    \/ InNet(a, <<127, 0, 0, 0>>, 8)
    \/ InNet(a, <<169, 254, 0, 0>>, 16)
    \/ InNet(a, <<172, 16, 0, 0>>, 12)
    \/ InNet(a, <<192, 0, 0, 0>>, 29)
    \/ InNet(a, <<192, 0, 0, 170>>, 31)
    \/ InNet(a, <<192, 0, 2, 0>>, 24)
    \/ InNet(a, <<192, 168, 0, 0>>, 16)
    \/ InNet(a, <<198, 18, 0, 0>>, 15)
    \/ InNet(a, <<198, 51, 100, 0>>, 24)
    \/ InNet(a, <<203, 0, 113, 0>>, 24)
    \/ InNet(a, <<240, 0, 0, 0>>, 4)
    \/ InNet(a, <<255, 255, 255, 255>>, 32)

\* ------------------------------------------------------------ text values
S_http == <<"h", "t", "t", "p">>
S_https == <<"h", "t", "t", "p", "s">>
S_localhost == <<"l", "o", "c", "a", "l", "h", "o", "s", "t">>
S_cdn == <<"c", "d", "n", ".", "i", "o">>
IP_PUBLIC_A == <<"8", ".", "8", ".", "8", ".", "8">>
IP_PUBLIC_B == <<"1", ".", "1", ".", "1", ".", "1">>
IP_LOOPBACK == <<"1", "2", "7", ".", "0", ".", "0", ".", "1">>
IP_LOOPBACK_2 == <<"1", "2", "7", ".", "0", ".", "1", ".", "1">>
IP_UNSPECIFIED == <<"0", ".", "0", ".", "0", ".", "0">>
IP_V6_LOOPBACK == <<":", ":", "1">>
IP_LINK_LOCAL == <<"1", "6", "9", ".", "2", "5", "4", ".", "1", ".", "1">>
IP_PRIVATE == <<"1", "0", ".", "0", ".", "0", ".", "1">>
IP_PRIVATE_B == <<"1", "7", "2", ".", "1", "6", ".", "0", ".", "1">>
IP_RESERVED == <<"2", "4", "0", ".", "0", ".", "0", ".", "1">>
IP_MULTICAST == <<"2", "2", "4", ".", "0", ".", "0", ".", "1">>

\* ALLOWED_SCHEMES, ALLOWED_IMAGE_TYPES
ALLOWED_SCHEMES == {S_http, S_https}
ALLOWED_IMAGE_TYPES ==
    { <<"i", "m", "a", "g", "e", "/", "j", "p", "e", "g">>,
      <<"i", "m", "a", "g", "e", "/", "j", "p", "g">>,
      <<"i", "m", "a", "g", "e", "/", "p", "n", "g">>,
      <<"i", "m", "a", "g", "e", "/", "g", "i", "f">>,
      <<"i", "m", "a", "g", "e", "/", "w", "e", "b", "p">>,
      <<"i", "m", "a", "g", "e", "/", "b", "m", "p">> }

\* the literal host names refused before DNS, and the refused text prefixes
BLOCKED_HOSTNAMES == {S_localhost, IP_LOOPBACK, IP_V6_LOOPBACK, IP_UNSPECIFIED, IP_LOOPBACK_2}
PRIVATE_PREFIXES == { <<"1", "2", "7", ".">>,
                      <<"1", "9", "2", ".", "1", "6", "8", ".">>,
                      <<"1", "0", ".">> }

\* ------------------------------------------------------ validate_image_url
Reject(reason, msg) ==
    [ok |-> FALSE, exc |-> "SSRFValidationError", reason |-> reason, msg |-> msg,
     ip |-> << >>, hostname |-> << >>]

Accept(ip, hostname) ==
    [ok |-> TRUE, exc |-> "", reason |-> "", msg |-> << >>, ip |-> ip, hostname |-> hostname]

\* a validator without the check of the private prefixes
validate_literal_no_prefix(url) ==
    LET parsed == urlparse(url)
        hostname == hostname_of(parsed)
    IN  IF parsed.bad
        THEN Reject("invalid_url", <<"invalid URL format: ", "Invalid IPv6 URL">>)
        ELSE IF parsed.scheme \notin ALLOWED_SCHEMES
        THEN Reject("scheme", <<"unsupported scheme: ">> \o parsed.scheme
                               \o <<". allowed only: ", "('http', 'https')">>)
        ELSE IF Len(hostname) = 0
        THEN Reject("no_hostname", <<"URL has no hostname">>)
        ELSE IF hostname \in BLOCKED_HOSTNAMES
        THEN Reject("localhost",
                    <<"access to localhost/loopback address forbidden: ">> \o hostname)
        ELSE Accept(<< >>, hostname)

\* steps 1-5: the checks on the text of the URL, before any DNS lookup; an
\* accepted result carries the host name to resolve and no address yet
validate_literal(url) ==
    LET parsed == urlparse(url)
        hostname == hostname_of(parsed)
    IN  IF parsed.bad
        THEN Reject("invalid_url", <<"invalid URL format: ", "Invalid IPv6 URL">>)
        ELSE IF parsed.scheme \notin ALLOWED_SCHEMES
        THEN Reject("scheme", <<"unsupported scheme: ">> \o parsed.scheme
                               \o <<". allowed only: ", "('http', 'https')">>)
        ELSE IF Len(hostname) = 0
        THEN Reject("no_hostname", <<"URL has no hostname">>)
        ELSE IF hostname \in BLOCKED_HOSTNAMES
        THEN Reject("localhost",
                    <<"access to localhost/loopback address forbidden: ">> \o hostname)
        ELSE IF \E p \in PRIVATE_PREFIXES : StartsWith(hostname, p)
        THEN Reject("private_literal",
                    <<"access to private address forbidden: ">> \o hostname)
        ELSE Accept(<< >>, hostname)

\* checks that ask for the private class before the link-local class
ip_verdict_private_first(a) ==
    IF is_loopback(a) THEN "loopback"
    ELSE IF is_private(a) THEN "private"
    ELSE IF is_link_local(a) THEN "link_local"
    ELSE IF is_reserved(a) THEN "reserved"
    ELSE IF is_multicast(a) THEN "multicast"
    ELSE "public"

\* the reason of the first class that matches, in the order of the checks
ip_verdict(a) ==
    IF is_loopback(a) THEN "loopback"
    ELSE IF is_link_local(a) THEN "link_local"
    ELSE IF is_private(a) THEN "private"
    ELSE IF is_reserved(a) THEN "reserved"
    ELSE IF is_multicast(a) THEN "multicast"
    ELSE "public"

ip_message(verdict, hostname, ip) ==
    CASE verdict = "loopback" ->
             <<"access to loopback address forbidden: ">> \o hostname \o <<" -> ">> \o ip
      [] verdict = "link_local" ->
             <<"access to link-local address forbidden: ">> \o hostname \o <<" -> ">> \o ip
      [] verdict = "private" ->
             <<"access to private address forbidden: ">> \o hostname \o <<" -> ">> \o ip
                 \o <<" (RFC 1918)">>
      [] verdict = "reserved" ->
             <<"access to reserved address forbidden: ">> \o hostname \o <<" -> ">> \o ip
      [] OTHER ->
             <<"access to multicast address forbidden: ">> \o hostname \o <<" -> ">> \o ip

\* a validator that keeps the first public address and passes over the others
RECURSIVE check_resolved_first_public(_, _, _)
check_resolved_first_public(hostname, ips, public_ips) ==
    IF Len(ips) = 0
    THEN IF Len(public_ips) = 0
         THEN Reject("all_invalid", <<"hostname ">> \o hostname
                        \o <<" has only internal/reserved IP addresses">>)
         ELSE Accept(public_ips[1], hostname)
    ELSE IF ip_address(Head(ips)) = << >> \/ ip_verdict(ip_address(Head(ips))) # "public"
    THEN check_resolved_first_public(hostname, Tail(ips), public_ips)
    ELSE check_resolved_first_public(hostname, Tail(ips), Append(public_ips, Head(ips)))

\* a validator that returns the last of the addresses it kept
selected_ip_last(public_ips) == public_ips[Len(public_ips)]

\* step 8: selected_ip = public_ips[0]
selected_ip(public_ips) == public_ips[1]

\* step 7-8: the loop over the resolved addresses; the first offending address
\* raises, an address that does not parse is skipped, the first of the
\* addresses kept is returned
RECURSIVE check_resolved(_, _, _)
check_resolved(hostname, ips, public_ips) ==
    IF Len(ips) = 0
    THEN IF Len(public_ips) = 0
         THEN Reject("all_invalid", <<"hostname ">> \o hostname
                        \o <<" has only internal/reserved IP addresses">>)
         ELSE Accept(selected_ip(public_ips), hostname)
    ELSE LET ip == Head(ips)
             ip_obj == ip_address(ip)
         IN  IF ip_obj = << >>
             THEN check_resolved(hostname, Tail(ips), public_ips)
             ELSE IF ip_verdict(ip_obj) # "public"
             THEN Reject(ip_verdict(ip_obj), ip_message(ip_verdict(ip_obj), hostname, ip))
             ELSE check_resolved(hostname, Tail(ips), Append(public_ips, ip))

\* a validator without the clause for socket.timeout: the timeout, an OSError,
\* falls to the clause of the other errors
validate_resolved_no_timeout_clause(hostname, r) ==
    CASE r.kind \in {"timeout", "gaierror", "oserror"} ->
             Reject("dns_failure", <<"DNS resolution failed: ">> \o hostname
                                      \o <<" - ", r.kind>>)
      [] r.kind = "unicode_error" ->
             [ok |-> FALSE, exc |-> "UnicodeError", reason |-> "idna",
              msg |-> <<"label empty or too long">>, ip |-> << >>, hostname |-> << >>]
      [] OTHER ->
             IF Len(Dedup(r.ips)) = 0
             THEN Reject("no_ips", <<"hostname resolved to no IP address: ">> \o hostname)
             ELSE check_resolved(hostname, Dedup(r.ips), << >>)

\* step 6-8: what validate makes of the resolver's result r
validate_resolved(hostname, r) ==
    CASE r.kind = "timeout" ->
             Reject("dns_timeout", <<"DNS lookup timed out: ">> \o hostname)
      [] r.kind \in {"gaierror", "oserror"} ->
             Reject("dns_failure", <<"DNS resolution failed: ">> \o hostname
                                      \o <<" - ", r.kind>>)
      [] r.kind = "unicode_error" ->
             [ok |-> FALSE, exc |-> "UnicodeError", reason |-> "idna",
              msg |-> <<"label empty or too long">>, ip |-> << >>, hostname |-> << >>]
      [] OTHER ->
             IF Len(Dedup(r.ips)) = 0
             THEN Reject("no_ips", <<"hostname resolved to no IP address: ">> \o hostname)
             ELSE check_resolved(hostname, Dedup(r.ips), << >>)

\* ------------------------------------------------------------ the resolver
\* socket.getaddrinfo(hostname, None).  A host name with an empty label fails
\* in the idna codec (UnicodeError, a ValueError); an address literal resolves
\* to itself; any other name gets what the DNS servers answer: a list of
\* addresses (the code provides for an empty one), a timeout, a resolver error
\* or another socket error.
DnsPool == {IP_PUBLIC_A, IP_PUBLIC_B, IP_LOOPBACK, IP_LINK_LOCAL, IP_PRIVATE,
            IP_RESERVED, IP_MULTICAST}

SeqsUpTo(S, n) == UNION {[1..k -> S] : k \in 0..n}

DnsAnswers == {[kind |-> "answer", ips |-> a] : a \in SeqsUpTo(DnsPool, MaxAnswer)}

has_empty_label(hostname) ==
    LET labels == Split(hostname, ".")
    IN  \E i \in 1..(Len(labels) - 1) : Len(labels[i]) = 0

getaddrinfo(hostname) ==
    IF has_empty_label(hostname)
    THEN {[kind |-> "unicode_error", ips |-> << >>]}
    ELSE IF ip_address(hostname) # << >>
    THEN {[kind |-> "answer", ips |-> <<hostname>>]}
    ELSE DnsAnswers \cup {[kind |-> "timeout", ips |-> << >>],
                          [kind |-> "gaierror", ips |-> << >>],
                          [kind |-> "oserror", ips |-> << >>]}

\* --------------------------------------------------------------- the inputs
SchemeSep == <<":", "/", "/">>
URL_PLAIN == S_http \o SchemeSep \o S_cdn \o <<"/", "a">>
URL_MIXED == S_https \o SchemeSep \o <<"C", "d", "n", ".", "i", "o", ":", "8", "/">>
                 \o S_cdn \o <<"?", "q">>
URL_LITERAL == S_http \o SchemeSep \o IP_PUBLIC_A \o <<"/", "a">>
URL_BAD_PORT == S_http \o SchemeSep \o S_cdn \o <<":", "x", "/", "a">>
URL_FTP == <<"f", "t", "p">> \o SchemeSep \o S_cdn \o <<"/", "a">>
URL_NO_HOST == S_http \o SchemeSep \o <<"/", "a">>
URL_LOCALHOST == S_http \o SchemeSep \o <<"L", "O", "C", "A", "L", "H", "O", "S", "T">>
                     \o <<"/", "a">>
URL_PRIVATE == S_http \o SchemeSep \o IP_PRIVATE \o <<"/", "a">>
URL_LINK_LOCAL == S_http \o SchemeSep \o IP_LINK_LOCAL \o <<"/", "a">>
URL_EMPTY_LABEL == S_http \o SchemeSep \o <<"a", ".", ".", "b", "/", "a">>
URL_BRACKET == S_http \o SchemeSep \o <<"[">> \o S_cdn \o <<"/", "a">>
URL_PORT_ZERO == S_http \o SchemeSep \o IP_PUBLIC_A \o <<":", "0", "/", "a">>
URL_HTTPS == S_https \o SchemeSep \o IP_PUBLIC_B \o <<"/", "a", "?", "q">>

Urls == {URL_PLAIN, URL_MIXED, URL_LITERAL, URL_BAD_PORT, URL_FTP, URL_NO_HOST,
         URL_LOCALHOST, URL_PRIVATE, URL_LINK_LOCAL, URL_EMPTY_LABEL, URL_BRACKET,
         URL_PORT_ZERO, URL_HTTPS}

\* where the origin may redirect to: an address of the internal network
LOCATION_INTERNAL == S_http \o SchemeSep \o IP_PRIVATE \o <<"/", "x">>

\* Content-Type and Content-Length header values; << >> is a missing header
ContentTypes == { << >>,
                  <<"i", "m", "a", "g", "e", "/", "p", "n", "g">>,
                  <<"I", "m", "a", "g", "e", "/", "P", "N", "G", " ", ";", "b">>,
                  <<"t", "e", "x", "t", "/", "h", "t", "m", "l">> }
ContentLengths == { << >>, <<"x">>, NatToStr(MaxSize), NatToStr(MaxSize + 1) }

STATUS_FORCELIST == {500, 502, 503, 504}
REDIRECT_STATUS == {301, 302, 303, 307, 308}

NoResponse == [kind |-> "none", code |-> 0, location |-> << >>, ct |-> << >>, cl |-> << >>]

\* what one request can come back with: a response that carries headers and a
\* body, an error status, a redirect, or an error of the transport
OkResponses ==
    {[kind |-> "status", code |-> c, location |-> << >>, ct |-> t, cl |-> l] :
        c \in {200, 304}, t \in ContentTypes, l \in ContentLengths}
ErrorResponses ==
    {[kind |-> "status", code |-> c, location |-> << >>, ct |-> << >>, cl |-> << >>] :
        c \in {404, 501, 503}}
RedirectResponses ==
    {[kind |-> "status", code |-> 302, location |-> LOCATION_INTERNAL,
      ct |-> << >>, cl |-> << >>]}
TransportErrors ==
    {[kind |-> k, code |-> 0, location |-> << >>, ct |-> << >>, cl |-> << >>] :
        k \in {"conn_timeout", "read_timeout", "conn_error"}}

\* one step of a body: a chunk of size bytes, the end of the stream, or an
\* error of the transport while reading
ChunkItems == {[end |-> "chunk", size |-> n] : n \in 0..ChunkSize}
EndItems == {[end |-> e, size |-> 0] : e \in {"eof", "read_timeout", "conn_error"}}
BodyScripts == {Append(s, e) : s \in SeqsUpTo(ChunkItems, MaxChunks), e \in EndItems}

RECURSIVE BodySize(_)
BodySize(items) == IF Len(items) = 0 THEN 0 ELSE Head(items).size + BodySize(Tail(items))

Last(s) == s[Len(s)]

\* ---------------------------------------------------------------- the state
Modes == {"sync", "async"}

VARIABLES
    url,             \* the url argument of the download call(s)
    pc,              \* pc[m]: where the call in mode m stands
    vres,            \* vres[m]: what validate_image_url came to
    ips,             \* ips[m]: validate's list of resolved addresses
    validateCalls,   \* validateCalls[m]: calls of validate_image_url so far
    defaulttimeout,  \* socket.getdefaulttimeout(): << >> is None
    reqlog,          \* reqlog[m]: the requests sent, one entry per hop
    attempts,        \* attempts[m]: sends of the request of the current hop
    response,        \* response[m]: what the transport got last
    buf,             \* buf[m]: image_data
    chunksRead,      \* chunksRead[m]: chunks the loop of the download has read
    netRead,         \* netRead[m]: body bytes read off the connection
    outcome,         \* outcome[m]: what the call returned or raised
    session,         \* _session: 0 is None
    async_client,    \* _async_client: 0 is None
    script,          \* the origin's behaviour seen by a first call, for a second
    bodyEnd,         \* bodyEnd[m]: how the read of the body ended, "none" before
    made,            \* made[m]: transports of mode m created so far, numbered from 1
    closed,          \* closed[m]: the transports of mode m whose close has run
    pending,         \* pending[m]: the transports whose close is a task not yet run
    returned,        \* returned[m]: what the gets since the last close returned, or 0
    task,            \* the analyze_image task: position, steps run, result, failure
    streamOpen,      \* streamOpen[m]: the call holds a response whose stream is not closed
    thread,          \* thread[t]: where thread t stands in its blocking download
    timeouts         \* the timeout of _async_client and the one last asked of it

vars == <<url, pc, vres, ips, validateCalls, defaulttimeout, reqlog, attempts, response,
          buf, chunksRead, netRead, outcome, session, async_client, script, bodyEnd,
          made, closed, pending, returned, task, streamOpen, thread, timeouts>>

\* the state of the transports besides the two globals
transportVars == <<made, closed, pending, returned>>

NoOutcome == [kind |-> "none", exc |-> "", reason |-> "", msg |-> << >>, data |-> << >>]
Returned(data) == [kind |-> "bytes", exc |-> "", reason |-> "", msg |-> << >>, data |-> data]
Raised(exc, reason, msg) ==
    [kind |-> "raise", exc |-> exc, reason |-> reason, msg |-> msg, data |-> << >>]
ImageDownloadError(reason, msg) == Raised("ImageDownloadError", reason, msg)

NoValidation ==
    [ok |-> FALSE, exc |-> "", reason |-> "none", msg |-> << >>, ip |-> << >>, hostname |-> << >>]

\* a handler that lets the validator's exception through as it is
validation_failure_bare(v) == Raised(v.exc, v.reason, v.msg)

\* except SSRFValidationError as e: raise ImageDownloadError(f"URL ...: {str(e)}");
\* any other exception of validate passes through
validation_failure(v) ==
    IF v.exc = "SSRFValidationError"
    THEN ImageDownloadError("validation", <<"URL validation failed: ">> \o v.msg)
    ELSE Raised(v.exc, v.reason, v.msg)

\* a download that validates again after a DNS timeout
after_validate_retry(v) ==
    IF v.ok THEN "send" ELSE IF v.reason = "dns_timeout" THEN "start" ELSE "done"

\* try: validate_image_url(url) / except: raise: the call goes on to the
\* request after an accepted URL and ends after any failure of validate
after_validate(v) == IF v.ok THEN "send" ELSE "done"

\* a request that keeps the netloc of the URL
target_netloc_keep(parsed, ip) == parsed.netloc

\* a request that goes to the default port of the scheme whatever the URL names
target_netloc_default_port(parsed, ip) ==
    ip \o <<":">> \o NatToStr(IF parsed.scheme = S_https THEN HTTPS_DEFAULT_PORT
                               ELSE HTTP_DEFAULT_PORT)

\* the netloc and the URL of the request: the validated address and the port
target_netloc(parsed, ip) ==
    ip \o <<":">> \o NatToStr(IF port_of(parsed).val # 0 THEN port_of(parsed).val
                               ELSE IF parsed.scheme = S_https THEN HTTPS_DEFAULT_PORT
                               ELSE HTTP_DEFAULT_PORT)

target_url_of(u, ip) == geturl(urlparse(u), target_netloc(urlparse(u), ip))

\* _get_http_session(), _get_async_client(): created on first use, then reused
\* n transports of the kind exist already, a new one is number n + 1
get_http_session(s, n) == IF s = 0 THEN n + 1 ELSE s
get_async_client(c, n) == IF c = 0 THEN n + 1 ELSE c

\* no client, and no timeout asked of one
NoTimeouts == [client |-> 0, asked |-> 0]

\* a getter that gives the client the timeout of every call
client_timeout_per_call(c, ts, timeout) == [client |-> timeout, asked |-> timeout]

\* _get_async_client(timeout): the timeout goes into the client that the call
\* creates, timeout=timeout of httpx.AsyncClient(...); a client that exists is
\* returned as it is.  client.get(...) names no timeout of its own, so the
\* timeout of the client is the one in force for the request.
client_timeout(c, ts, timeout) ==
    [client |-> IF c = 0 THEN timeout ELSE ts.client, asked |-> timeout]

\* a second call of the same input (the other mode) replays what the first
\* call saw of the resolver and the origin; a call that runs alone sees anything
Recording(m) == \E o \in Modes \ {m} : pc[o] = "start"
Replaying(m) == \E o \in Modes \ {m} : pc[o] = "done"

NoScript == [dns |-> << >>, origin |-> << >>, body |-> << >>]

\* None, for the texts of the task's result
None == <<"None">>

\* the threads of a process that download in blocking mode, and a thread that
\* has not called yet
Threads == 1..MaxThreads
NoThread == [pc |-> "idle", got |-> 0]

\* no analyze_image task runs
NoTask == [pc |-> "idle", ran |-> {}, label |-> "", policy |-> "", rag |-> "", llm |-> "",
           report |-> None, report_error |-> None, failure |-> None]

Finish(m, out) ==
    /\ pc' = [pc EXCEPT ![m] = "done"]
    /\ outcome' = [outcome EXCEPT ![m] = out]

InitCall ==
    /\ url \in Urls
    /\ vres = [m \in Modes |-> NoValidation]
    /\ ips = [m \in Modes |-> << >>]
    /\ validateCalls = [m \in Modes |-> 0]
    /\ defaulttimeout = << >>
    /\ reqlog = [m \in Modes |-> << >>]
    /\ attempts = [m \in Modes |-> 0]
    /\ response = [m \in Modes |-> NoResponse]
    /\ buf = [m \in Modes |-> << >>]
    /\ chunksRead = [m \in Modes |-> 0]
    /\ netRead = [m \in Modes |-> 0]
    /\ outcome = [m \in Modes |-> NoOutcome]
    /\ session = 0
    /\ async_client = 0
    /\ script = NoScript
    /\ bodyEnd = [m \in Modes |-> "none"]
    /\ made = [m \in Modes |-> 0]
    /\ closed = [m \in Modes |-> {}]
    /\ pending = [m \in Modes |-> {}]
    /\ returned = [m \in Modes |-> 0]
    /\ streamOpen = [m \in Modes |-> FALSE]
    /\ thread = [t \in Threads |-> NoThread]
    /\ timeouts = NoTimeouts

\* one download call, in either mode
Init ==
    /\ InitCall
    /\ \E a \in Modes : pc = [m \in Modes |-> IF m = a THEN "start" ELSE "idle"]
    /\ task = NoTask

\* download, step 1 up to the DNS lookup: validate_image_url's checks of the text
ValidateBegin(m) ==
    /\ pc[m] = "start"
    /\ \E v \in {validate_literal(url)} :
          /\ validateCalls' = [validateCalls EXCEPT ![m] = @ + 1]
          /\ vres' = [vres EXCEPT ![m] = v]
          /\ pc' = [pc EXCEPT ![m] = IF v.ok THEN "dns" ELSE after_validate(v)]
          /\ outcome' = [outcome EXCEPT ![m] = IF v.ok THEN @ ELSE validation_failure(v)]
          /\ defaulttimeout' = IF v.ok THEN <<DNS_TIMEOUT>> ELSE defaulttimeout
    /\ UNCHANGED <<url, ips, reqlog, attempts, response, buf, chunksRead, netRead,
                   session, async_client, script, bodyEnd, transportVars, task, streamOpen, thread, timeouts>>

\* a lookup that leaves its timeout set as the default of later sockets
defaulttimeout_kept == <<DNS_TIMEOUT>>

\* finally: socket.setdefaulttimeout(None), the empty text stands for None
defaulttimeout_reset == << >>

\* download, step 1 from the DNS lookup on: getaddrinfo, the checks of the
\* addresses, and the handler of the download around validate
ValidateResolve(m) ==
    /\ pc[m] = "dns"
    /\ \E r \in (IF Len(script.dns) > 0 THEN {script.dns[1]}
                 ELSE getaddrinfo(vres[m].hostname)) :
          LET v == validate_resolved(vres[m].hostname, r)
          IN  /\ vres' = [vres EXCEPT ![m] = v]
              /\ ips' = [ips EXCEPT ![m] = Dedup(r.ips)]
              /\ script' = IF Recording(m) THEN [script EXCEPT !.dns = <<r>>] ELSE script
              /\ pc' = [pc EXCEPT ![m] = after_validate(v)]
              /\ outcome' = [outcome EXCEPT ![m] =
                                IF v.ok THEN @ ELSE validation_failure(v)]
    /\ defaulttimeout' = defaulttimeout_reset
    /\ UNCHANGED <<url, validateCalls, reqlog, attempts, response, buf, chunksRead,
                   netRead, session, async_client, bodyEnd, transportVars, task, streamOpen, thread, timeouts>>

\* download, steps 2-4: the target URL, the headers, the transport, the request
SendRequest(m) ==
    /\ pc[m] = "send"
    /\ ips' = [ips EXCEPT ![m] = << >>]
    /\ IF port_of(urlparse(url)).err
       THEN /\ Finish(m, Raised("ValueError", "port", <<"Port could not be cast">>))
            /\ UNCHANGED <<reqlog, attempts, session, async_client, made, returned,
                           timeouts>>
       ELSE /\ reqlog' = [reqlog EXCEPT ![m] =
                             <<[url |-> target_url_of(url, vres[m].ip),
                                host |-> vres[m].hostname]>>]
            /\ attempts' = [attempts EXCEPT ![m] = 1]
            /\ session' = IF m = "sync" THEN get_http_session(session, made[m]) ELSE session
            /\ async_client' =
                   IF m = "async" THEN get_async_client(async_client, made[m])
                   ELSE async_client
            /\ made' = [made EXCEPT ![m] =
                            IF (IF m = "sync" THEN session ELSE async_client) = 0
                            THEN @ + 1 ELSE @]
            /\ returned' = [returned EXCEPT ![m] =
                                IF m = "sync" THEN session' ELSE async_client']
            /\ timeouts' = IF m = "async"
                            THEN client_timeout(async_client, timeouts, DOWNLOAD_TIMEOUT)
                            ELSE timeouts
            /\ pc' = [pc EXCEPT ![m] = "wait"]
            /\ UNCHANGED outcome
    /\ UNCHANGED <<url, vres, validateCalls, defaulttimeout, response, buf, chunksRead,
                   netRead, script, bodyEnd, closed, pending, task, streamOpen, thread>>

\* ------------------------------------------------------------ the transports
EnvResponses(m) ==
    OkResponses \cup ErrorResponses \cup TransportErrors
        \cup (IF Len(reqlog[m]) <= MaxRedirects THEN RedirectResponses ELSE {})

ResponseSource(m) ==
    IF Replaying(m) /\ Len(script.origin) > 0 THEN {Head(script.origin)}
    ELSE EnvResponses(m)

ScriptAfterResponse(m, r) ==
    IF Replaying(m) /\ Len(script.origin) > 0 THEN [script EXCEPT !.origin = Tail(@)]
    ELSE IF Recording(m) THEN [script EXCEPT !.origin = Append(@, r)]
    ELSE script

is_redirect(r) == r.kind = "status" /\ r.code \in REDIRECT_STATUS /\ Len(r.location) > 0

\* a transport that re-sends once more than max_retries allows
sync_step_one_more(r, att) ==
    IF r.kind # "status" \/ r.code \in STATUS_FORCELIST
    THEN IF att <= SESSION_MAX_RETRIES + 1 THEN "retry" ELSE "exhausted"
    ELSE IF is_redirect(r) THEN "redirect"
    ELSE IF r.code >= 400 THEN "http_error"
    ELSE "final"

\* a transport that does not follow redirects
sync_step_no_redirect(r, att) ==
    IF r.kind # "status" \/ r.code \in STATUS_FORCELIST
    THEN IF att <= SESSION_MAX_RETRIES THEN "retry" ELSE "exhausted"
    ELSE IF r.code >= 400 THEN "http_error"
    ELSE "final"

\* requests.Session.get over HTTPAdapter(max_retries=Retry(total=3,
\* status_forcelist=[500, 502, 503, 504], allowed_methods=["GET"])), with
\* allow_redirects=True, then response.raise_for_status(): what becomes of the
\* answer r to send number att of a hop
sync_step(r, att) ==
    IF r.kind # "status" \/ r.code \in STATUS_FORCELIST
    THEN IF att <= SESSION_MAX_RETRIES THEN "retry" ELSE "exhausted"
    ELSE IF is_redirect(r) THEN "redirect"
    ELSE IF r.code >= 400 THEN "http_error"
    ELSE "final"

\* httpx.AsyncClient.get(follow_redirects=True), no retries, then
\* response.raise_for_status(), which raises for every status outside 2xx
async_step(r) ==
    IF r.kind # "status" THEN "error"
    ELSE IF is_redirect(r) THEN "redirect"
    ELSE IF r.code < 200 \/ r.code >= 300 THEN "http_error"
    ELSE "final"

\* e.response.status_code if e.response else "Unknown": a requests.Response is
\* true exactly when its status is below 400
http_error_status(code) == IF code < 400 THEN NatToStr(code) ELSE <<"Unknown">>

timeout_error(u) == ImageDownloadError("timeout", <<"download timed out: ">> \o u)
download_failed(what, u) ==
    ImageDownloadError("download_failed", <<"download failed: ">> \o what \o <<" - ">> \o u)

\* the except clauses of the blocking download for the exception that the
\* transport raises once the retries are used up: ConnectTimeout is a Timeout;
\* a read timeout and a connection error come wrapped in a MaxRetryError that
\* requests turns into ConnectionError; a status of the forcelist gives RetryError
sync_exhausted(r, u) ==
    CASE r.kind = "conn_timeout" -> timeout_error(u)
      [] r.kind = "status" ->
             download_failed(<<"Max retries exceeded (too many ">> \o NatToStr(r.code)
                                 \o <<" error responses)">>, u)
      [] OTHER -> download_failed(<<"Max retries exceeded (", r.kind, ")">>, u)

\* the except clauses of the non-blocking download for an error of the
\* transport: httpx.TimeoutException, else httpx.RequestError
async_error(kind, u) ==
    IF kind \in {"conn_timeout", "read_timeout"} THEN timeout_error(u)
    ELSE download_failed(<<kind>>, u)

\* the request of the next hop: requests keeps the caller's headers, httpx
\* sets Host to the netloc of the location
redirect_request(m, r) ==
    [url |-> r.location,
     host |-> IF m = "sync" THEN reqlog[m][1].host ELSE urlparse(r.location).netloc]

\* session.get(..., stream=True): the answer that get returns is held with its
\* body unread, whether raise_for_status() then raises or not; the answers that
\* a re-send or a redirect follows are drained and released by the library
stream_held(step) == step \in {"final", "http_error"}

\* session.get(...) and raise_for_status() of the blocking download, one
\* answer of the origin at a time
SyncReceive ==
    /\ pc["sync"] = "wait"
    /\ \E r \in ResponseSource("sync") :
          LET step == sync_step(r, attempts["sync"])
          IN  /\ response' = [response EXCEPT !["sync"] = r]
              /\ script' = ScriptAfterResponse("sync", r)
              /\ reqlog' = IF step = "redirect"
                           THEN [reqlog EXCEPT !["sync"] = Append(@, redirect_request("sync", r))]
                           ELSE reqlog
              /\ attempts' = [attempts EXCEPT !["sync"] =
                                 CASE step = "retry" -> @ + 1
                                   [] step = "redirect" -> 1
                                   [] OTHER -> @]
              /\ CASE step = "exhausted" -> Finish("sync", sync_exhausted(r, url))
                   [] step = "http_error" ->
                          Finish("sync", ImageDownloadError("http_error",
                              <<"HTTP error: ">> \o http_error_status(r.code)
                                  \o <<" - ">> \o url))
                   [] step = "final" ->
                          pc' = [pc EXCEPT !["sync"] = "headers"] /\ UNCHANGED outcome
                   [] OTHER -> UNCHANGED <<pc, outcome>>
              /\ streamOpen' = [streamOpen EXCEPT !["sync"] = stream_held(step)]
    /\ UNCHANGED <<url, vres, ips, validateCalls, defaulttimeout, buf, chunksRead,
                   netRead, session, async_client, bodyEnd, transportVars, task, thread, timeouts>>

\* the body that client.get reads before it returns: an error status carries
\* no body worth modelling, only the way its read ends
AsyncBodies(r) ==
    IF r.kind = "status" /\ ~is_redirect(r)
    THEN IF r.code >= 400 THEN {<<e>> : e \in EndItems} ELSE BodyScripts
    ELSE {<< >>}

\* await client.get(...) and raise_for_status() of the non-blocking download:
\* the answer of the origin and, client.get not being a streaming call, the
\* whole of its body
AsyncReceive ==
    /\ pc["async"] = "wait"
    /\ \E r \in ResponseSource("async") : \E b \in AsyncBodies(r) :
          LET step == IF async_step(r) \in {"http_error", "final"} /\ Last(b).end # "eof"
                      THEN "body_error" ELSE async_step(r)
          IN  /\ response' = [response EXCEPT !["async"] = r]
              /\ script' = [ScriptAfterResponse("async", r) EXCEPT !.body =
                               IF Recording("async") /\ AsyncBodies(r) = BodyScripts
                               THEN <<[total |-> BodySize(b), end |-> Last(b).end]>>
                               ELSE @]
              /\ reqlog' = IF step = "redirect"
                           THEN [reqlog EXCEPT !["async"] = Append(@, redirect_request("async", r))]
                           ELSE reqlog
              /\ attempts' = [attempts EXCEPT !["async"] = IF step = "redirect" THEN 1 ELSE 0]
              /\ netRead' = [netRead EXCEPT !["async"] = BodySize(b)]
              /\ bodyEnd' = [bodyEnd EXCEPT !["async"] =
                                IF Len(b) = 0 THEN "none" ELSE Last(b).end]
              /\ CASE step = "error" -> Finish("async", async_error(r.kind, url))
                   [] step = "body_error" -> Finish("async", async_error(Last(b).end, url))
                   [] step = "http_error" ->
                          Finish("async", ImageDownloadError("http_error",
                              <<"HTTP error: ">> \o NatToStr(r.code) \o <<" - ">> \o url))
                   [] step = "final" ->
                          pc' = [pc EXCEPT !["async"] = "headers"] /\ UNCHANGED outcome
                   [] OTHER -> UNCHANGED <<pc, outcome>>
    /\ UNCHANGED <<url, vres, ips, validateCalls, defaulttimeout, buf, chunksRead,
                   session, async_client, transportVars, task, streamOpen, thread, timeouts>>

\* --------------------------------------------------- the checks of the answer
\* str.strip() of blanks
RECURSIVE Strip(_)
Strip(s) ==
    IF Len(s) > 0 /\ s[1] = " " THEN Strip(Tail(s))
    ELSE IF Len(s) > 0 /\ s[Len(s)] = " " THEN Strip(Before(s, Len(s)))
    ELSE s

\* a check that compares the header value as it came
content_type_raw(h) == h

\* response.headers.get("Content-Type", "").split(";")[0].strip().lower()
content_type_of(h) == Lower(Strip(Split(h, ";")[1]))

\* a size check that refuses a body of exactly max_size bytes
exceeds_at_limit(n, max_size) == n >= max_size

\* a size check that lets one more chunk through
exceeds_late(n, max_size) == n > max_size + ChunkSize

\* len(image_data) > max_size
exceeds(n, max_size) == n > max_size

too_large_stream(n) ==
    ImageDownloadError("too_large_stream",
        <<"file too large: downloaded ">> \o NatToStr(n) \o <<" bytes (maximum allowed ">>
            \o NatToStr(MaxSize) \o <<" bytes)">>)

\* steps 5 and 6 up to the loop: the Content-Type and the declared length
check_headers(r) ==
    IF content_type_of(r.ct) \notin ALLOWED_IMAGE_TYPES
    THEN ImageDownloadError("content_type",
             <<"unsupported file type: ">> \o content_type_of(r.ct)
                 \o <<". allowed image types only: ", "ALLOWED_IMAGE_TYPES">>)
    ELSE IF Len(r.cl) > 0 /\ ~IsDigits(r.cl)
    THEN Raised("ValueError", "content_length", <<"invalid literal for int()">>)
    ELSE IF Len(r.cl) > 0 /\ ParseInt(r.cl) > MaxSize
    THEN ImageDownloadError("too_large_declared",
             <<"file too large: ">> \o r.cl \o <<" bytes (maximum allowed ">>
                 \o NatToStr(MaxSize) \o <<" bytes)">>)
    ELSE NoOutcome

CheckHeaders(m) ==
    /\ pc[m] = "headers"
    /\ IF check_headers(response[m]).kind = "none"
       THEN pc' = [pc EXCEPT ![m] = "stream"] /\ UNCHANGED outcome
       ELSE Finish(m, check_headers(response[m]))
    /\ UNCHANGED <<url, vres, ips, validateCalls, defaulttimeout, reqlog, attempts,
                   response, buf, chunksRead, netRead, session, async_client, script, bodyEnd, transportVars, task, streamOpen, thread, timeouts>>

\* the bytes of a body are numbered in the order the origin sends them
NewBytes(from, n) == [i \in 1..n |-> from + i]

\* what the next read of the body can bring: anything the origin may send or,
\* for a second call, a way of sending the body the first call received
ChunkSource ==
    IF Replaying("sync") /\ Len(script.body) > 0
    THEN LET rest == script.body[1].total - netRead["sync"]
         IN  {c \in ChunkItems :
                 /\ chunksRead["sync"] < MaxChunks
                 /\ c.size <= rest
                 /\ rest - c.size <= (MaxChunks - chunksRead["sync"] - 1) * ChunkSize}
             \cup {e \in EndItems : rest = 0 /\ e.end = script.body[1].end}
    ELSE (IF chunksRead["sync"] < MaxChunks THEN ChunkItems ELSE {}) \cup EndItems

\* for chunk in response.iter_content(chunk_size=8192): one turn of the loop,
\* or its end, or the exception of a read that fails (no handler around it).
\* The library releases the connection when the body is read to its end and
\* closes it when a read fails; the code itself never closes the response.
SyncReadChunk ==
    /\ pc["sync"] = "stream"
    /\ \E item \in ChunkSource :
          /\ IF item.end = "chunk"
             THEN /\ chunksRead' = [chunksRead EXCEPT !["sync"] = @ + 1]
                  /\ netRead' = [netRead EXCEPT !["sync"] = @ + item.size]
                  /\ buf' = [buf EXCEPT !["sync"] = @ \o NewBytes(netRead["sync"], item.size)]
                  /\ UNCHANGED <<bodyEnd, streamOpen>>
                  /\ IF exceeds(Len(buf'["sync"]), MaxSize)
                     THEN Finish("sync", too_large_stream(Len(buf'["sync"])))
                     ELSE UNCHANGED <<pc, outcome>>
             ELSE /\ UNCHANGED <<chunksRead, netRead, buf>>
                  /\ bodyEnd' = [bodyEnd EXCEPT !["sync"] = item.end]
                  /\ streamOpen' = [streamOpen EXCEPT !["sync"] = FALSE]
                  /\ Finish("sync",
                        CASE item.end = "eof" -> Returned(buf["sync"])
                          [] item.end = "read_timeout" ->
                                 Raised("requests.ConnectionError", "read_timeout",
                                        <<"Read timed out.">>)
                          [] OTHER ->
                                 Raised("requests.ChunkedEncodingError", "conn_error",
                                        <<"Connection broken">>))
    /\ UNCHANGED <<url, vres, ips, validateCalls, defaulttimeout, reqlog, attempts,
                   response, session, async_client, script, transportVars, task, thread, timeouts>>

\* async for chunk in response.aiter_bytes(chunk_size=8192): the body is in
\* memory already, the loop walks it in slices of chunk_size
AsyncReadChunk ==
    /\ pc["async"] = "stream"
    /\ IF Len(buf["async"]) < netRead["async"]
       THEN LET n == IF netRead["async"] - Len(buf["async"]) < ChunkSize
                     THEN netRead["async"] - Len(buf["async"]) ELSE ChunkSize
            IN  /\ buf' = [buf EXCEPT !["async"] = @ \o NewBytes(Len(@), n)]
                /\ IF exceeds(Len(buf'["async"]), MaxSize)
                   THEN Finish("async", too_large_stream(Len(buf'["async"])))
                   ELSE UNCHANGED <<pc, outcome>>
       ELSE /\ UNCHANGED buf
            /\ Finish("async", Returned(buf["async"]))
    /\ UNCHANGED <<url, vres, ips, validateCalls, defaulttimeout, reqlog, attempts,
                   response, chunksRead, netRead, session, async_client, script, bodyEnd, transportVars, task, streamOpen, thread, timeouts>>

\* ------------------------------------------------------- the specifications
Next ==
    \/ \E m \in Modes : ValidateBegin(m)
    \/ \E m \in Modes : ValidateResolve(m)
    \/ \E m \in Modes : SendRequest(m)
    \/ SyncReceive
    \/ AsyncReceive
    \/ \E m \in Modes : CheckHeaders(m)
    \/ SyncReadChunk
    \/ AsyncReadChunk

Spec == Init /\ [][Next]_vars

\* the same input downloaded in both modes, the non-blocking call first: the
\* blocking call then meets the resolver and origin behaviour the first one met
InitPair ==
    /\ InitCall
    /\ pc = [m \in Modes |-> "start"]
    /\ task = NoTask

Turn(m) == m = "sync" => pc["async"] = "done"

NextPair ==
    \/ \E m \in Modes : Turn(m) /\ ValidateBegin(m)
    \/ \E m \in Modes : Turn(m) /\ ValidateResolve(m)
    \/ \E m \in Modes : Turn(m) /\ SendRequest(m)
    \/ Turn("sync") /\ SyncReceive
    \/ AsyncReceive
    \/ \E m \in Modes : Turn(m) /\ CheckHeaders(m)
    \/ Turn("sync") /\ SyncReadChunk
    \/ AsyncReadChunk

SpecPair == InitPair /\ [][NextPair]_vars

\* validate_image_url called twice on the same URL, by the non-blocking and then
\* by the blocking download, the second call on the DNS answer of the first
TurnValidate(m) == m = "sync" => pc["async"] \notin {"start", "dns"}

NextValidate ==
    \/ \E m \in Modes : TurnValidate(m) /\ ValidateBegin(m)
    \/ \E m \in Modes : TurnValidate(m) /\ ValidateResolve(m)

SpecValidate == InitPair /\ [][NextValidate]_vars

\* ------------------------------------------------- the transports' lifecycle
\* the variables of the download calls
callVars == <<url, pc, vres, ips, validateCalls, defaulttimeout, reqlog, attempts,
              response, buf, chunksRead, netRead, outcome, script, bodyEnd, streamOpen,
              thread>>

\* _get_http_session() called on its own
GetHttpSession ==
    /\ session = 0 => made["sync"] < MaxInstances
    /\ session' = get_http_session(session, made["sync"])
    /\ made' = [made EXCEPT !["sync"] = IF session = 0 THEN @ + 1 ELSE @]
    /\ returned' = [returned EXCEPT !["sync"] = session']
    /\ UNCHANGED <<callVars, task, async_client, closed, pending, timeouts>>

\* close_http_session(): closes the session and clears the global, or does nothing
CloseHttpSession ==
    /\ IF session = 0
       THEN UNCHANGED <<session, closed, returned>>
       ELSE /\ closed' = [closed EXCEPT !["sync"] = @ \cup {session}]
            /\ session' = 0
            /\ returned' = [returned EXCEPT !["sync"] = 0]
    /\ UNCHANGED <<callVars, task, async_client, made, pending, timeouts>>

\* the timeout arguments of the calls: the default and a shorter one
SHORT_TIMEOUT == 5
Timeouts == {DOWNLOAD_TIMEOUT, SHORT_TIMEOUT}

\* _get_async_client(timeout) called on its own, as the download calls it
GetAsyncClient ==
    /\ async_client = 0 => made["async"] < MaxInstances
    /\ \E timeout \in Timeouts :
          timeouts' = client_timeout(async_client, timeouts, timeout)
    /\ async_client' = get_async_client(async_client, made["async"])
    /\ made' = [made EXCEPT !["async"] = IF async_client = 0 THEN @ + 1 ELSE @]
    /\ returned' = [returned EXCEPT !["async"] = async_client']
    /\ UNCHANGED <<callVars, task, session, closed, pending>>

\* what asyncio.get_event_loop() finds when close_async_client() runs: a loop
\* that is running, a loop that is not, or no usable loop (RuntimeError)
EventLoops == {"running", "stopped", "none"}

\* close_async_client(): with a running loop aclose() becomes a task, with a
\* stopped loop it is run to its end, after RuntimeError it is not run; the
\* global is cleared in each case
CloseAsyncClient ==
    /\ \E loop \in EventLoops :
          IF async_client = 0
          THEN UNCHANGED <<async_client, closed, pending, returned, timeouts>>
          ELSE /\ timeouts' = NoTimeouts
               /\ pending' = [pending EXCEPT !["async"] =
                                 IF loop = "running" THEN @ \cup {async_client} ELSE @]
               /\ closed' = [closed EXCEPT !["async"] =
                                IF loop = "stopped" THEN @ \cup {async_client} ELSE @]
               /\ async_client' = 0
               /\ returned' = [returned EXCEPT !["async"] = 0]
    /\ UNCHANGED <<callVars, task, session, made>>

\* the event loop runs a task that close_async_client() created
AcloseTask ==
    /\ \E c \in pending["async"] :
          /\ pending' = [pending EXCEPT !["async"] = @ \ {c}]
          /\ closed' = [closed EXCEPT !["async"] = @ \cup {c}]
    /\ UNCHANGED <<callVars, task, session, async_client, made, returned, timeouts>>

\* a process that gets and closes its transports, with no download under way
InitTransport ==
    /\ InitCall
    /\ url = URL_PLAIN
    /\ pc = [m \in Modes |-> "idle"]
    /\ task = NoTask

NextTransport ==
    \/ GetHttpSession
    \/ CloseHttpSession
    \/ GetAsyncClient
    \/ CloseAsyncClient
    \/ AcloseTask

SpecTransport == InitTransport /\ [][NextTransport]_vars

\* ------------------------------------------- concurrent blocking downloads
\* Several threads of one process call download_image_securely at the same
\* time.  None of the code holds a lock, so the threads interleave between the
\* statements that read and write the two things they share: the default
\* socket timeout and the global _session.  Of a call the model keeps those
\* statements; the URL is one that validate accepts.

\* what the threads leave alone
notThreadVars == <<url, pc, vres, ips, validateCalls, reqlog, attempts, response, buf,
                   chunksRead, netRead, outcome, script, bodyEnd, streamOpen,
                   async_client, closed, pending, returned, task, timeouts>>

\* validate_image_url: socket.setdefaulttimeout(5)
ThreadSetTimeout(t) ==
    /\ thread[t].pc = "idle"
    /\ defaulttimeout' = <<DNS_TIMEOUT>>
    /\ thread' = [thread EXCEPT ![t].pc = "resolve"]
    /\ UNCHANGED <<notThreadVars, session, made>>

\* validate_image_url: socket.getaddrinfo(hostname, None) returns
ThreadResolve(t) ==
    /\ thread[t].pc = "resolve"
    /\ thread' = [thread EXCEPT ![t].pc = "reset"]
    /\ UNCHANGED <<notThreadVars, defaulttimeout, session, made>>

\* validate_image_url: finally: socket.setdefaulttimeout(None)
ThreadResetTimeout(t) ==
    /\ thread[t].pc = "reset"
    /\ defaulttimeout' = defaulttimeout_reset
    /\ thread' = [thread EXCEPT ![t].pc = "check"]
    /\ UNCHANGED <<notThreadVars, session, made>>

\* _get_http_session: if _session is None
ThreadCheckSession(t) ==
    /\ thread[t].pc = "check"
    /\ thread' = [thread EXCEPT ![t].pc = IF session = 0 THEN "create" ELSE "return"]
    /\ UNCHANGED <<notThreadVars, defaulttimeout, session, made>>

\* _get_http_session: _session = requests.Session() and its adapters
ThreadCreateSession(t) ==
    /\ thread[t].pc = "create"
    /\ session' = get_http_session(0, made["sync"])
    /\ made' = [made EXCEPT !["sync"] = @ + 1]
    /\ thread' = [thread EXCEPT ![t].pc = "return"]
    /\ UNCHANGED <<notThreadVars, defaulttimeout>>

\* _get_http_session: return _session
ThreadReturnSession(t) ==
    /\ thread[t].pc = "return"
    /\ thread' = [thread EXCEPT ![t].pc = "done", ![t].got = session]
    /\ UNCHANGED <<notThreadVars, defaulttimeout, session, made>>

InitThreads ==
    /\ InitCall
    /\ url = URL_PLAIN
    /\ pc = [m \in Modes |-> "idle"]
    /\ task = NoTask

NextThreads ==
    \/ \E t \in Threads : ThreadSetTimeout(t)
    \/ \E t \in Threads : ThreadResolve(t)
    \/ \E t \in Threads : ThreadResetTimeout(t)
    \/ \E t \in Threads : ThreadCheckSession(t)
    \/ \E t \in Threads : ThreadCreateSession(t)
    \/ \E t \in Threads : ThreadReturnSession(t)

SpecThreads == InitThreads /\ [][NextThreads]_vars

\* ------------------------------------------------- the analyze_image task
\* app/worker/diagnosis_tasks.py.  The task downloads the image with the
\* non-blocking download, draws a label (the mock of the classifier), looks the
\* label up in the taxonomy and, for the policy RETRIEVE, asks the knowledge
\* base and the LLM for a report.  Of the result the model keeps action_policy,
\* report and report_error.

\* mock_results: the labels random.choice draws from
MOCK_LABELS == {"healthy", "powdery_mildew", "aphid_complex", "spider_mite", "late_blight"}

\* taxonomy.get_by_model_label(label): the policy of the entry of the label in
\* data/taxonomy_standard_v1.json, or "not_found" (TaxonomyNotFoundError)
TaxonomyAnswers == {"PASS", "RETRIEVE", "HUMAN_REVIEW", "not_found"}

\* what the knowledge base and the LLM would answer to a call
RagAnswers == {"ok", "not_initialized", "error"}
LlmAnswers == {"ok", "timeout", "error", "other"}

\* the attributes of class RAGService that a caller can call
RAGService_methods == {"_get_chroma_db", "query", "_cached_search"}

REPORT == <<"report">>
PREFIX_VALIDATION == <<"URL validation failed: ">>
PREFIX_DOWNLOAD == <<"image download failed: ">>

\* the task starts: nothing has run, the result is not built
NewTask == [NoTask EXCEPT !.pc = "download"]

\* a task that goes on to the classifier whatever the download did
after_download_continue(out) == "inference"

\* lines 94-111 and 277-284: the task goes on after a download that returned
\* bytes and fails, the exception re-raised, after one that raised
after_download(out) == IF out.kind = "bytes" THEN "inference" ELSE "failed"

\* the message of the exception that fails the task after a download that raised
task_failure(out) ==
    IF out.exc = "SSRFValidationError" THEN PREFIX_VALIDATION \o out.msg
    ELSE IF out.exc = "ImageDownloadError" THEN PREFIX_DOWNLOAD \o out.msg
    ELSE out.msg

\* a report block without the handler of the other exceptions
report_block_no_handler(rag, llm) ==
    IF "query_async" \notin RAGService_methods
    THEN [report |-> None, report_error |-> None, ran |-> {}, exc |-> "AttributeError"]
    ELSE [report |-> REPORT, report_error |-> None, ran |-> {"retrieval", "generation"},
          exc |-> ""]

\* lines 206-260, the try block of the report: get_rag_service() gives the
\* RAGService singleton, rag.query_async is looked up on it, the contexts go
\* to generate_diagnosis_report_async; the three handlers turn every Exception
\* into report None and a report_error.  exc is the exception that leaves the
\* block, ran the calls that were made.
report_block(rag, llm) ==
    IF "query_async" \notin RAGService_methods
    THEN [report |-> None,
          report_error |-> <<"Unexpected error: ", "'RAGService' object has no attribute ",
                             "'query_async'">>,
          ran |-> {}, exc |-> ""]
    ELSE IF rag = "not_initialized"
    THEN [report |-> None,
          report_error |-> <<"RAG service not initialized: ", "ChromaDB not initialized">>,
          ran |-> {"retrieval"}, exc |-> ""]
    ELSE IF rag = "error"
    THEN [report |-> None, report_error |-> <<"Unexpected error: ", "retrieval">>,
          ran |-> {"retrieval"}, exc |-> ""]
    ELSE IF llm = "timeout"
    THEN [report |-> None, report_error |-> <<"LLM call timed out: ", "timeout">>,
          ran |-> {"retrieval", "generation"}, exc |-> ""]
    ELSE IF llm = "error"
    THEN [report |-> None, report_error |-> <<"Report generation failed: ", "error">>,
          ran |-> {"retrieval", "generation"}, exc |-> ""]
    ELSE IF llm = "other"
    THEN [report |-> None, report_error |-> <<"Unexpected error: ", "generation">>,
          ran |-> {"retrieval", "generation"}, exc |-> ""]
    ELSE [report |-> REPORT, report_error |-> None, ran |-> {"retrieval", "generation"},
          exc |-> ""]

\* lines 94-111: asyncio.run(download_image_securely_async(...)) has ended
TaskDownloaded ==
    /\ task.pc = "download"
    /\ pc["async"] = "done"
    /\ task' = [task EXCEPT !.pc = after_download(outcome["async"]),
                            !.ran = @ \cup {"download"},
                            !.failure = IF outcome["async"].kind = "bytes" THEN None
                                        ELSE task_failure(outcome["async"])]
    /\ UNCHANGED <<callVars, session, async_client, transportVars, timeouts>>

\* lines 113-147: the mock of the classifier
TaskInference ==
    /\ task.pc = "inference"
    /\ \E label \in MOCK_LABELS :
          task' = [task EXCEPT !.pc = "taxonomy", !.ran = @ \cup {"inference"},
                               !.label = label]
    /\ UNCHANGED <<callVars, session, async_client, transportVars, timeouts>>

\* lines 149-198: the taxonomy lookup and the result; a label without an entry
\* gets the policy HUMAN_REVIEW in the result
TaskTaxonomy ==
    /\ task.pc = "taxonomy"
    /\ \E entry \in TaxonomyAnswers :
          task' = [task EXCEPT !.pc = "report", !.ran = @ \cup {"taxonomy"},
                               !.policy = entry]
    /\ UNCHANGED <<callVars, session, async_client, transportVars, timeouts>>

\* lines 200-275: the report, for an entry of policy RETRIEVE, and the return
TaskReport ==
    /\ task.pc = "report"
    /\ \E rag \in RagAnswers, llm \in LlmAnswers :
          \E b \in {report_block(rag, llm)} :
             task' = IF task.policy # "RETRIEVE"
                     THEN [task EXCEPT !.pc = "returned",
                                       !.report = None, !.report_error = None]
                     ELSE [task EXCEPT !.pc = IF b.exc = "" THEN "returned" ELSE "failed",
                                       !.rag = rag, !.llm = llm,
                                       !.ran = @ \cup b.ran,
                                       !.report = b.report,
                                       !.report_error = b.report_error,
                                       !.failure = IF b.exc = "" THEN None ELSE <<b.exc>>]
    /\ UNCHANGED <<callVars, session, async_client, transportVars, timeouts>>

\* one analyze_image task
InitTask ==
    /\ InitCall
    /\ pc = [m \in Modes |-> IF m = "async" THEN "start" ELSE "idle"]
    /\ task = NewTask

NextTask ==
    \/ ValidateBegin("async")
    \/ ValidateResolve("async")
    \/ SendRequest("async")
    \/ AsyncReceive
    \/ CheckHeaders("async")
    \/ AsyncReadChunk
    \/ TaskDownloaded
    \/ TaskInference
    \/ TaskTaxonomy
    \/ TaskReport

SpecTask == InitTask /\ [][NextTask]_vars

\* ------------------------------------------------------------------ claims
\* an address text of one of the classes the validator refuses
NonPublic(ip) ==
    /\ ip_address(ip) # << >>
    /\ \/ is_loopback(ip_address(ip))
       \/ is_link_local(ip_address(ip))
       \/ is_private(ip_address(ip))
       \/ is_reserved(ip_address(ip))
       \/ is_multicast(ip_address(ip))

\* C1: validate fails with SSRFValidationError whenever some address of the
\* DNS answer, at any position, is loopback, link-local, private, reserved or
\* multicast; so the address of a successful validate is in none of the classes
C1_AnyUnsafeAddressRejects ==
    \A m \in Modes :
        /\ (\E i \in 1..Len(ips[m]) : NonPublic(ips[m][i]))
               => (~vres[m].ok /\ vres[m].exc = "SSRFValidationError")
        /\ (vres[m].ok /\ Len(vres[m].ip) > 0) => ~NonPublic(vres[m].ip)

\* a DNS answer with a public address first and an internal one behind it was refused
C1_Witness ==
    \E m \in Modes :
        /\ Len(ips[m]) = 2
        /\ ~NonPublic(ips[m][1])
        /\ NonPublic(ips[m][2])
        /\ vres[m].exc = "SSRFValidationError"

C3_ValidateOnceBeforeRequest ==
    \A m \in Modes :
        /\ validateCalls[m] <= 1
        /\ pc[m] \notin {"idle", "start"} => validateCalls[m] = 1
        /\ Len(reqlog[m]) > 0 => (validateCalls[m] = 1 /\ vres[m].ok)
        /\ ~vres[m].ok => Len(reqlog[m]) = 0
        /\ (~vres[m].ok /\ vres[m].reason # "none") => pc[m] = "done"

\* a download ended on a DNS timeout of validate, with no request sent
C3_Witness ==
    \E m \in Modes :
        /\ pc[m] = "done"
        /\ vres[m].reason = "dns_timeout"
        /\ validateCalls[m] = 1
        /\ Len(reqlog[m]) = 0

C5_OnlyDownloadFailureEscapes ==
    \A m \in Modes :
        pc[m] = "done" =>
            \/ outcome[m].kind = "bytes"
            \/ outcome[m].exc = "ImageDownloadError"

\* the last answer of the origin was a final status outside 2xx
FinalNon2xx(m) ==
    /\ response[m].kind = "status"
    /\ ~is_redirect(response[m])
    /\ (response[m].code < 200 \/ response[m].code >= 300)

\* C6: after a final status outside 2xx the download raises ImageDownloadError
\* with the digits of the status in its message (an error of the transport
\* while the non-blocking transport reads the body of the answer set aside)
C6_StatusCodeInMessage ==
    \A m \in Modes :
        (/\ pc[m] = "done"
         /\ FinalNon2xx(m)
         /\ ~(m = "async" /\ outcome[m].reason \in {"timeout", "download_failed"}))
            => /\ outcome[m].exc = "ImageDownloadError"
               /\ Contains(outcome[m].msg, NatToStr(response[m].code))

\* C7: blocking mode, a body that streams past max_size: the download is still
\* reading only while the total is within max_size, it raises ImageDownloadError
\* at the chunk that takes the total over it, with at most max_size plus one
\* chunk buffered and nothing read off the connection beyond the buffer
C7_StreamLimit ==
    /\ pc["sync"] = "stream" => Len(buf["sync"]) <= MaxSize
    /\ Len(buf["sync"]) > MaxSize =>
           /\ pc["sync"] = "done"
           /\ outcome["sync"].exc = "ImageDownloadError"
           /\ outcome["sync"].reason = "too_large_stream"
           /\ Len(buf["sync"]) <= MaxSize + ChunkSize
           /\ netRead["sync"] = Len(buf["sync"])
    /\ outcome["sync"].reason = "too_large_stream" => Len(buf["sync"]) > MaxSize

\* a body without Content-Length went over the limit and the download failed
C7_Witness ==
    /\ outcome["sync"].reason = "too_large_stream"
    /\ Len(response["sync"].cl) = 0
    /\ Len(buf["sync"]) = MaxSize + ChunkSize

\* the final answer declares a Content-Length above max_size
DeclaresTooLarge(m) ==
    /\ pc[m] \in {"headers", "stream", "done"}
    /\ response[m].kind = "status"
    /\ response[m].code < 400
    /\ IsDigits(response[m].cl)
    /\ ParseInt(response[m].cl) > MaxSize

\* C8: when the answer declares a Content-Length above max_size the download
\* raises ImageDownloadError with no part of the body read
C8_DeclaredTooLargeBeforeBody ==
    \A m \in Modes :
        DeclaresTooLarge(m) =>
            /\ netRead[m] = 0
            /\ chunksRead[m] = 0
            /\ pc[m] # "stream"
            /\ pc[m] = "done" => outcome[m].exc = "ImageDownloadError"

\* C9: the same URL, DNS answer and origin behaviour give the same outcome in
\* both modes: the same bytes, or a failure of the same kind and reason
C9_SameOutcome ==
    (pc["sync"] = "done" /\ pc["async"] = "done") =>
        /\ outcome["sync"].kind = outcome["async"].kind
        /\ outcome["sync"].exc = outcome["async"].exc
        /\ outcome["sync"].reason = outcome["async"].reason
        /\ outcome["sync"].data = outcome["async"].data

\* the host a request goes to
RequestHost(req) == hostname_of(urlparse(req.url))

\* C10: the transport follows a redirect of the origin, and the download does
\* not run validate on its target: after a redirect answer the next request is
\* out to the Location as given, with validate still run once, on the input URL
C10_RedirectNotValidated ==
    \A m \in Modes :
        /\ is_redirect(response[m]) =>
               /\ pc[m] = "wait"
               /\ Len(reqlog[m]) >= 2
               /\ Last(reqlog[m]).url = response[m].location
        /\ Len(reqlog[m]) >= 2 => validateCalls[m] = 1

\* a download of an accepted URL has sent a request to a private address that
\* is not the address validate returned
C10_Witness ==
    \E m \in Modes :
        /\ Len(reqlog[m]) >= 2
        /\ vres[m].ok
        /\ ~NonPublic(vres[m].ip)
        /\ NonPublic(RequestHost(Last(reqlog[m])))
        /\ RequestHost(Last(reqlog[m])) # vres[m].ip

\* C11: on success validate returns the first address of the DNS answer in
\* resolver order, the answer taken with its duplicates removed, each address
\* kept at its first occurrence; never a later address
C11_FirstAddressSelected ==
    \A m \in Modes :
        /\ \A i, j \in 1..Len(ips[m]) : ips[m][i] = ips[m][j] => i = j
        /\ (vres[m].ok /\ Len(ips[m]) > 0) => vres[m].ip = ips[m][1]

\* validate accepted a host name with two different public addresses
C11_Witness ==
    \E m \in Modes :
        /\ vres[m].ok
        /\ Len(ips[m]) = 2
        /\ vres[m].ip = ips[m][1]
        /\ vres[m].ip # ips[m][2]

\* the last answer of the origin was a 2xx status
Final2xx(m) ==
    /\ response[m].kind = "status"
    /\ response[m].code >= 200
    /\ response[m].code < 300

\* the header value, cut at the first ';', trimmed and in lower case, is an
\* allowed image type
AllowedType(ct) ==
    Lower(Strip(IF Find(ct, ";") = 0 THEN ct ELSE Before(ct, Find(ct, ";"))))
        \in ALLOWED_IMAGE_TYPES

\* the download went past its content-type check
PassedTypeCheck(m) ==
    \/ pc[m] = "stream"
    \/ outcome[m].kind = "bytes"
    \/ outcome[m].reason \in {"content_length", "too_large_declared", "too_large_stream"}
    \/ outcome[m].exc \in {"requests.ConnectionError", "requests.ChunkedEncodingError"}

\* C12: after a 2xx answer the download passes the content-type check exactly
\* when the Content-Type value, cut at the first ';', trimmed and lower-cased,
\* is an allowed image type; with any other value, a missing header among
\* them, it fails with ImageDownloadError
C12_ContentTypeCheck ==
    \A m \in Modes :
        Final2xx(m) =>
            /\ PassedTypeCheck(m) => AllowedType(response[m].ct)
            /\ outcome[m].reason = "content_type" =>
                   (~AllowedType(response[m].ct) /\ outcome[m].exc = "ImageDownloadError")
            /\ (pc[m] = "done" /\ ~AllowedType(response[m].ct)) =>
                   outcome[m].exc = "ImageDownloadError"
            /\ pc[m] = "done" =>
                   \/ PassedTypeCheck(m)
                   \/ outcome[m].reason = "content_type"
                   \/ (m = "async" /\ outcome[m].reason \in {"timeout", "download_failed"})

\* a download returned bytes after a Content-Type in upper case with a parameter
C12_Witness ==
    \E m \in Modes :
        /\ Final2xx(m)
        /\ outcome[m].kind = "bytes"
        /\ Contains(response[m].ct, <<";">>)
        /\ response[m].ct \notin ALLOWED_IMAGE_TYPES

\* C13: a download returns bytes only after an accepted URL, a final answer
\* that is no error status, an allowed content type and the end of the stream,
\* and what it returns is the bytes of the body received, all of them, in the
\* order received; it is never longer than max_size, and the size check fails
\* a body only when more than max_size bytes of it were received
C13_ReturnsBodyReceived ==
    \A m \in Modes :
        /\ outcome[m].kind = "bytes" =>
               /\ pc[m] = "done"
               /\ vres[m].ok
               /\ response[m].kind = "status"
               /\ response[m].code < 400
               /\ AllowedType(response[m].ct)
               /\ bodyEnd[m] = "eof"
               /\ outcome[m].data = [i \in 1..netRead[m] |-> i]
               /\ outcome[m].data = buf[m]
               /\ Len(outcome[m].data) <= MaxSize
        /\ outcome[m].reason = "too_large_stream" => netRead[m] > MaxSize

\* a body of exactly max_size bytes, declared so, came in more than one chunk
\* and was returned
C13_Witness ==
    /\ outcome["sync"].kind = "bytes"
    /\ Len(outcome["sync"].data) = MaxSize
    /\ chunksRead["sync"] > 1
    /\ response["sync"].cl = NatToStr(MaxSize)

\* a timeout of the transport ended the download: at connect or while waiting
\* for the headers, on the last attempt, or while reading the body
TimedOut(m) ==
    /\ pc[m] = "done"
    /\ \/ response[m].kind \in {"conn_timeout", "read_timeout"}
       \/ bodyEnd[m] = "read_timeout"

\* C14: a timeout of the request in any phase of a download, connect, wait for
\* the headers or read of a body chunk, reaches the caller as ImageDownloadError
\* with the timeout reason, not the reason of an HTTP error or of another failure
C14_TimeoutSurfaces ==
    \A m \in Modes :
        TimedOut(m) =>
            /\ outcome[m].exc = "ImageDownloadError"
            /\ outcome[m].reason = "timeout"

\* the answer is a 5xx status
Is5xx(r) == r.kind = "status" /\ r.code >= 500 /\ r.code < 600

\* the answer is a status the session re-sends the request on
IsResentStatus(r) == r.kind = "status" /\ r.code \in {500, 502, 503, 504}

\* C15 as stated: the transport re-sends a GET answered with a 5xx status, up
\* to 3 times, so that a 5xx answer ends the download only as the answer to a
\* fourth attempt, and then with one ImageDownloadError
C15_Every5xxResent ==
    \A m \in Modes :
        /\ attempts[m] <= SESSION_MAX_RETRIES + 1
        /\ pc[m] = "wait" => outcome[m].kind = "none"
        /\ (Is5xx(response[m]) /\ pc[m] = "done") =>
               /\ attempts[m] = SESSION_MAX_RETRIES + 1
               /\ outcome[m].exc = "ImageDownloadError"

\* C15, amended: the session of the blocking mode re-sends a GET answered with
\* 500, 502, 503 or 504, at most 3 times, 4 attempts in all for one request; any
\* other answer, another 5xx status such as 501 among them, is used as the
\* result at once; when the fourth attempt fails too the caller gets one
\* ImageDownloadError, and none before the download ends; the client of the
\* non-blocking mode never re-sends
C15_ForcelistResent ==
    /\ \A m \in Modes :
           /\ attempts[m] <= SESSION_MAX_RETRIES + 1
           /\ pc[m] = "wait" => outcome[m].kind = "none"
           /\ (Is5xx(response[m]) /\ pc[m] = "done") => outcome[m].exc = "ImageDownloadError"
    /\ (IsResentStatus(response["sync"]) /\ pc["sync"] = "wait") => attempts["sync"] >= 2
    /\ (IsResentStatus(response["sync"]) /\ pc["sync"] = "done") =>
           /\ attempts["sync"] = SESSION_MAX_RETRIES + 1
           /\ outcome["sync"].reason = "download_failed"
    /\ (Is5xx(response["sync"]) /\ ~IsResentStatus(response["sync"])) =>
           /\ pc["sync"] = "done"
           /\ outcome["sync"].reason = "http_error"
    /\ (response["sync"].kind = "status" /\ response["sync"].code = 200) =>
           pc["sync"] \in {"headers", "stream", "done"}
    /\ attempts["async"] <= 1
    /\ Is5xx(response["async"]) => pc["async"] = "done"

\* the blocking download returned the body of a 200 that answered a re-sent request
C15_Witness ==
    /\ attempts["sync"] >= 2
    /\ response["sync"].code = 200
    /\ outcome["sync"].kind = "bytes"

\* the transport the global of a mode holds, 0 for none
Current(k) == IF k = "sync" THEN session ELSE async_client

\* C16: gets with no close between them return one and the same transport;
\* a close with no transport changes nothing; once a close has returned, the
\* transport it took out of the global has been closed, and the transport a
\* later get returns is a new one, none of those taken out before
C16_TransportLifecycle ==
    \A k \in Modes :
        /\ returned[k] # 0 => returned[k] = Current(k)
        /\ Current(k) <= made[k]
        /\ closed[k] \cup pending[k] \subseteq 1..made[k]
        /\ Current(k) # 0 => Current(k) \notin closed[k] \cup pending[k]
        /\ \A i \in 1..made[k] : i # Current(k) => i \in closed[k]

\* the URL parses and its text alone is to be refused: a scheme other than
\* http and https, no host name, a host name that is, in any case of letters,
\* localhost, 127.0.0.1, ::1, 0.0.0.0 or 127.0.1.1, or a host name that starts
\* with 127., 192.168. or 10.
TextRefused(u) ==
    /\ ~urlparse(u).bad
    /\ \/ urlparse(u).scheme \notin {S_http, S_https}
       \/ Len(hostinfo(urlparse(u)).hostname) = 0
       \/ Lower(hostinfo(urlparse(u)).hostname) \in
              {S_localhost, IP_LOOPBACK, IP_V6_LOOPBACK, IP_UNSPECIFIED, IP_LOOPBACK_2}
       \/ StartsWith(Lower(hostinfo(urlparse(u)).hostname), <<"1", "2", "7", ".">>)
       \/ StartsWith(Lower(hostinfo(urlparse(u)).hostname),
                     <<"1", "9", "2", ".", "1", "6", "8", ".">>)
       \/ StartsWith(Lower(hostinfo(urlparse(u)).hostname), <<"1", "0", ".">>)

\* C17: validate refuses such a URL with SSRFValidationError and resolves
\* nothing: the call never stands at the DNS lookup, no DNS timeout is set, no
\* address is held
C17_TextRefusedBeforeDns ==
    \A m \in Modes :
        TextRefused(url) =>
            /\ pc[m] \in {"idle", "start", "done"}
            /\ pc[m] = "done" => (vres[m].exc = "SSRFValidationError" /\ validateCalls[m] = 1)
            /\ Len(ips[m]) = 0
            /\ defaulttimeout = << >>
            /\ script.dns = << >>

\* a call ended on the refusal of a host name that starts with 10.
C17_Witness ==
    \E m \in Modes :
        /\ pc[m] = "done"
        /\ TextRefused(url)
        /\ vres[m].reason = "private_literal"
        /\ StartsWith(hostinfo(urlparse(url)).hostname, <<"1", "0", ".">>)

\* the call of mode m has the resolver's result behind it
Resolved(m) == Len(script.dns) > 0 /\ pc[m] \notin {"idle", "start", "dns"}

TIMEOUT_REASON == <<"DNS lookup timed out: ">>
FAILURE_REASON == <<"DNS resolution failed: ">>

\* C18: after a DNS timeout, a resolver error, another socket error or an
\* answer of no address, validate has raised SSRFValidationError; the timeout
\* carries the reason of the timeout and not the reason of the failed
\* resolution, the other errors carry the reason of the failed resolution
C18_DnsFailureRefused ==
    \A m \in Modes :
        Resolved(m) =>
            /\ script.dns[1].kind = "timeout" =>
                  /\ vres[m].exc = "SSRFValidationError"
                  /\ StartsWith(vres[m].msg, TIMEOUT_REASON)
                  /\ ~StartsWith(vres[m].msg, FAILURE_REASON)
            /\ script.dns[1].kind \in {"gaierror", "oserror"} =>
                  /\ vres[m].exc = "SSRFValidationError"
                  /\ StartsWith(vres[m].msg, FAILURE_REASON)
            /\ (script.dns[1].kind = "answer" /\ Len(script.dns[1].ips) = 0) =>
                  /\ vres[m].exc = "SSRFValidationError"
                  /\ vres[m].reason = "no_ips"
            /\ script.dns[1].kind \in {"timeout", "gaierror", "oserror"} =>
                  (~vres[m].ok /\ pc[m] = "done" /\ Len(reqlog[m]) = 0)

\* both calls met a DNS timeout and ended on it
C18_Witness ==
    \A m \in Modes :
        /\ Resolved(m)
        /\ script.dns[1].kind = "timeout"
        /\ pc[m] = "done"
        /\ StartsWith(vres[m].msg, TIMEOUT_REASON)

\* the default port of the scheme of URL u, and the port u names (0 for none)
DefaultPort(u) == IF urlparse(u).scheme = S_https THEN 443 ELSE 80
NamesPort(u) == Len(hostinfo(urlparse(u)).port) > 0
NamedPort(u) == IF NamesPort(u) THEN ParseInt(hostinfo(urlparse(u)).port) ELSE 0

\* the request that download itself built, in mode m
Built(m) == Len(reqlog[m]) > 0
BuiltTarget(m) == urlparse(reqlog[m][1].url)

KeepsSchemePathQuery(m) ==
    /\ BuiltTarget(m).scheme = urlparse(url).scheme
    /\ BuiltTarget(m).path = urlparse(url).path
    /\ BuiltTarget(m).query = urlparse(url).query

\* C19 as stated: the target keeps scheme, path and query, and its authority
\* is the validated address followed by the port the URL names, or by 443 for
\* https and 80 for http when the URL names none
C19_TargetKeepsNamedPort ==
    \A m \in Modes :
        Built(m) =>
            /\ KeepsSchemePathQuery(m)
            /\ BuiltTarget(m).netloc =
                   vres[m].ip \o <<":">>
                       \o NatToStr(IF NamesPort(url) THEN NamedPort(url) ELSE DefaultPort(url))

\* C19 amended: the port of the target is the port the URL names when that
\* port is not 0; a URL that names port 0 is treated as one that names no port
C19_TargetKeepsNonZeroPort ==
    \A m \in Modes :
        Built(m) =>
            /\ KeepsSchemePathQuery(m)
            /\ BuiltTarget(m).netloc =
                   vres[m].ip \o <<":">>
                       \o NatToStr(IF NamedPort(url) # 0 THEN NamedPort(url)
                                   ELSE DefaultPort(url))

\* a request was built for a URL that names port 0 and went to port 80, and
\* the model holds URLs that name another port and URLs of both schemes
C19_Witness ==
    \E m \in Modes :
        /\ Built(m)
        /\ NamesPort(url) /\ NamedPort(url) = 0
        /\ BuiltTarget(m).netloc = vres[m].ip \o <<":", "8", "0">>
        /\ NamedPort(URL_MIXED) = 8
        /\ DefaultPort(URL_HTTPS) = 443 /\ ~NamesPort(URL_HTTPS)

\* validate has returned or raised in the call of mode m
Validated(m) == pc[m] \notin {"idle", "start", "dns"}

DownloadFailed == pc["async"] = "done" /\ outcome["async"].kind = "raise"

EndsWith(s, t) == Len(s) >= Len(t) /\ SubSeq(s, Len(s) - Len(t) + 1, Len(s)) = t

\* C21: after a download that raised, the task fails with a message that ends
\* on the message of the download's exception, and neither the classifier nor
\* the taxonomy lookup nor retrieval nor report generation has run
C21_DownloadFailureFailsTask ==
    DownloadFailed =>
        /\ task.pc \in {"download", "failed"}
        /\ task.ran \subseteq {"download"}
        /\ task.pc = "failed" =>
              /\ task.failure # None
              /\ Len(outcome["async"].msg) > 0
              /\ EndsWith(task.failure, outcome["async"].msg)

\* the task failed on a download that timed out
C21_Witness ==
    /\ DownloadFailed
    /\ task.pc = "failed"
    /\ outcome["async"].exc = "ImageDownloadError"
    /\ outcome["async"].reason = "timeout"
    /\ StartsWith(task.failure, PREFIX_DOWNLOAD)

\* C22: retrieval and generation run only for an entry of policy RETRIEVE;
\* then, when the knowledge base and the LLM both answer, report is the
\* generated report and report_error is None; for any other policy and for a
\* label without an entry report and report_error are None and retrieval has
\* not run
C22_ReportOnlyOnRetrieve ==
    /\ (task.ran \cap {"retrieval", "generation"} # {}) => task.policy = "RETRIEVE"
    /\ task.pc = "returned" =>
          /\ (task.policy = "RETRIEVE" /\ task.rag = "ok" /\ task.llm = "ok") =>
                (task.report = REPORT /\ task.report_error = None)
          /\ task.policy # "RETRIEVE" =>
                /\ task.report = None
                /\ task.report_error = None
                /\ "retrieval" \notin task.ran

\* the try block of the report has ended on an exception
ReportFailed == task.policy = "RETRIEVE" /\ task.pc \in {"returned", "failed"}
                /\ task.report # REPORT

C30_ValidatorRejectionPrefix ==
    (task.pc = "failed" /\ vres["async"].exc = "SSRFValidationError") =>
        /\ StartsWith(task.failure, PREFIX_VALIDATION)
        /\ ~StartsWith(task.failure, PREFIX_DOWNLOAD)

\* C24: non-blocking mode, a body that goes past max_size: when the download
\* raises for the size, at most max_size plus one chunk of the body has been
\* read off the connection into memory
C24_AsyncStreamLimit ==
    /\ pc["async"] = "stream" => netRead["async"] <= MaxSize + ChunkSize
    /\ outcome["async"].reason = "too_large_stream" =>
           /\ Len(buf["async"]) <= MaxSize + ChunkSize
           /\ netRead["async"] <= MaxSize + ChunkSize

\* C25: a download that failed holds no response with an open stream
C25_FailedDownloadClosesStream ==
    \A m \in Modes :
        (pc[m] = "done" /\ outcome[m].kind = "raise") => ~streamOpen[m]

\* C29: non-blocking mode: the timeout in force for the request of a call is
\* the timeout argument of that call
C29_CallTimeoutInForce ==
    timeouts.asked # 0 => timeouts.client = timeouts.asked

\* C26: the threads that found no session create one session between them,
\* and every call returns that session
C26_OneTransportCreated ==
    /\ made["sync"] <= 1
    /\ \A t \in Threads : thread[t].pc = "done" => thread[t].got = 1

\* C27: while a call is in getaddrinfo the default socket timeout is the DNS
\* timeout that the call set
C27_DnsTimeoutInForce ==
    \A t \in Threads : thread[t].pc = "resolve" => defaulttimeout = <<DNS_TIMEOUT>>

\* the classes in the order the claim gives, and whether address a is of class c
CLASS_ORDER == <<"loopback", "link_local", "private", "reserved", "multicast">>
OfClass(c, a) ==
    CASE c = "loopback" -> is_loopback(a)
      [] c = "link_local" -> is_link_local(a)
      [] c = "private" -> is_private(a)
      [] c = "reserved" -> is_reserved(a)
      [] OTHER -> is_multicast(a)

\* the first address of the answer that is in some class, 0 for none
FirstOffending(answer) ==
    IF \E i \in 1..Len(answer) : NonPublic(answer[i])
    THEN CHOOSE i \in 1..Len(answer) :
             NonPublic(answer[i]) /\ \A j \in 1..(i - 1) : ~NonPublic(answer[j])
    ELSE 0

\* the first class of the order that address a is of
FirstClass(a) ==
    CLASS_ORDER[CHOOSE k \in 1..Len(CLASS_ORDER) :
                    /\ OfClass(CLASS_ORDER[k], a)
                    /\ \A j \in 1..(k - 1) : ~OfClass(CLASS_ORDER[j], a)]

\* C28: validate refuses an answer with an offending address for the first
\* such address in resolver order, and the reason names the first class of the
\* order loopback, link-local, private, reserved, multicast that the address
\* is of; so a link-local address is refused as link-local, not as private
C28_ReasonNamesFirstClass ==
    \A m \in Modes :
        (pc[m] = "done" /\ FirstOffending(ips[m]) # 0) =>
            /\ vres[m].exc = "SSRFValidationError"
            /\ vres[m].reason = FirstClass(ip_address(ips[m][FirstOffending(ips[m])]))
            /\ vres[m].msg = ip_message(vres[m].reason, hostname_of(urlparse(url)),
                                        ips[m][FirstOffending(ips[m])])
            /\ is_link_local(ip_address(ips[m][FirstOffending(ips[m])])) =>
                  /\ vres[m].reason = "link_local"
                  /\ Head(vres[m].msg) = "access to link-local address forbidden: "

\* a public address and then a link-local one, which is of the private class
\* as well: refused as link-local
C28_Witness ==
    \E m \in Modes :
        /\ pc[m] = "done"
        /\ Len(ips[m]) = 2
        /\ FirstOffending(ips[m]) = 2
        /\ is_link_local(ip_address(ips[m][2]))
        /\ is_private(ip_address(ips[m][2]))
        /\ vres[m].reason = "link_local"

====
